---- MODULE Spec2Model ----
(***************************************************************************)
(* A model of gif_pygame: the GIFPygame animation object                   *)
(* (src/gif_pygame/gif_pygame.py) and the batch setters of                 *)
(* src/gif_pygame/transform.py.                                            *)
(*                                                                         *)
(* Time is counted in whole ticks; a frame's duration is a number of       *)
(* ticks. time.time() is the variable clock, which starts at 1 (0 is the   *)
(* value the code uses for "frame_time not set") and only grows.           *)
(*                                                                         *)
(* Python objects that the code shares by reference are kept in heaps:     *)
(* a frame is a cell of `heap` (the [surface, duration] list load()        *)
(* builds), a Surface is an identifier whose alpha lives in `alpha`, and   *)
(* the lists self.frames / self.orig_frames are sequences of cell          *)
(* references.                                                             *)
(***************************************************************************)
EXTENDS Integers, Sequences, FiniteSets, TLC

\* ------------------------------------------------------------------ bounds

MaxFrames == 2      \* most frames a loaded file has
MaxDur == 2         \* longest frame duration, in ticks
MaxLoops == 1       \* largest finite loop limit
MaxCount == 3       \* cap on the loop counter loops[0]
MaxTime == 4        \* last value of time.time()
MaxBatch == 2       \* most entries in one batch setter call
MaxPick == 2        \* most indices in one getter call

\* The playback-only specification has one more frame and one more loop, and
\* time enough to play unit-duration frames to the end.
PlayFrames == MaxFrames + 1
PlayLoops == MaxLoops + 1
PlayTime == PlayFrames * (PlayLoops + 1) + 1

\* --------------------------------------------------------------- variables

VARIABLES
    clock,          \* time.time()
    heap,           \* frame cells: cell |-> [surf, dur]
    alpha,          \* Surface |-> its alpha (Surface.set_alpha)
    loaded,         \* what load() decoded: <<[surf, dur], ...>>, never changed
    frames,         \* self.frames: a list of cell references
    orig_frames,    \* self.orig_frames
    frame,          \* self.frame
    frame_time,     \* self.frame_time
    paused_time,    \* self.paused_time
    paused,         \* self.paused
    ended,          \* self.ended
    loops,          \* self.loops = [count, limit]; <<count, limit>> here
    last,           \* name of the most recent call
    turn,           \* flips at every call: a call that changes nothing is a step
    raised,         \* exception the most recent call raised, or "none"
    result,         \* list the most recent call returned; <<>> when it
                    \* returned None
    copied,         \* the instance was made by copy(): its frames are tuples
                    \* and its loops[1] is the loops list of the instance
                    \* copied (loops[2] here keeps the limit in that list)
    other,          \* a second instance: how it was made, its frames (cell
                    \* references) and its clock fields; made = "none" when
                    \* there is no second instance
    budget,         \* history: time the frame had left when pause() froze it
    resumed         \* history: time of the unpause() that followed, 0 if none

vars == <<clock, heap, alpha, loaded, frames, orig_frames, frame, frame_time,
          paused_time, paused, ended, loops, last, turn, raised, result,
          copied, other, budget, resumed>>

store == <<heap, alpha, loaded, frames, orig_frames>>
timer == <<frame, frame_time, paused_time, paused, ended, loops>>

\* ----------------------------------------------------------------- helpers

Range(s) == {s[k] : k \in 1..Len(s)}

\* len(self.frames)
NFrames == Len(frames)

\* list[i] raises IndexError unless -len <= i < len
IndexOK(i, n) == -n <= i /\ i < n

\* list[i]: a negative index counts from the end; the cell reference
Cell(i) == frames[(IF i < 0 THEN i + NFrames ELSE i) + 1]

\* self.frames[i][0] and self.frames[i][1]
Surface(i) == heap[Cell(i)].surf
Duration(i) == heap[Cell(i)].dur

\* list.copy(): a new list of the same references (the frame cells are shared)
ListCopy(l) == [k \in 1..Len(l) |-> l[k]]

\* ------------------------------------------------------------------- load

\* The clock fields GIFPygame.__init__ gives an instance with loop limit lim.
NewClock(lim) ==
    [frame |-> 0, frame_time |-> 0, paused_time |-> 0, paused |-> FALSE,
     loops |-> <<0, lim>>, ended |-> FALSE]

\* No second instance.
NoOther == [made |-> "none", frames |-> <<>>, timer |-> NewClock(-1)]

\* load() decodes n frames; frame k gets its own Surface k and a duration.
\* GIFPygame.__init__ then keeps two shallow copies of that list.
InitWith(ns, durs, limits) ==
    \E n \in ns : \E d \in [1..n -> durs] : \E lim \in limits :
        /\ clock = 1
        /\ heap = [k \in 1..n |-> [surf |-> k, dur |-> d[k]]]
        /\ alpha = [s \in 0..n |-> -1]
        /\ loaded = [k \in 1..n |-> [surf |-> k, dur |-> d[k]]]
        /\ orig_frames = ListCopy([k \in 1..n |-> k])
        /\ frames = ListCopy([k \in 1..n |-> k])
        /\ frame = 0
        /\ frame_time = 0
        /\ paused_time = 0
        /\ paused = FALSE
        /\ loops = <<0, lim>>
        /\ ended = FALSE
        /\ last = "load"
        /\ turn = FALSE
        /\ raised = "none"
        /\ result = <<>>
        /\ copied = FALSE
        /\ other = NoOther
        /\ budget = 0
        /\ resumed = 0

Init == InitWith(1..MaxFrames, 0..MaxDur, (-1)..MaxLoops)

\* ------------------------------------------------------------------ clock

\* Wall-clock time passes between two calls.
Tick(limit) ==
    /\ clock < limit
    /\ clock' = clock + 1
    /\ UNCHANGED <<store, timer, last, turn, raised, result, copied,
                   other, budget,
                   resumed>>

\* One pass of the host's render loop: render() or blit_ready() was called
\* (they call _animate), then time moves on to the next tick.
Lap(limit) ==
    /\ last = "advance"
    /\ clock < limit
    /\ clock' = clock + 1
    /\ last' = "lap"
    /\ UNCHANGED <<store, timer, turn, raised, result, copied, other, budget,
                   resumed>>

\* A deliberately wrong variant of PauseTime, to show the properties tell them apart: every pause() records
\* the frame's start time again.
PauseTimeAlways == frame_time

\* GIFPygame.pause
PauseTime == IF ~paused THEN frame_time ELSE paused_time

\* A deliberately wrong variant of Over, to show the properties tell them apart: the comparison is the wrong
\* way round.
OverReversed(count) == loops[2] # -1 /\ count < loops[2]

\* A deliberately wrong variant of Over, to show the properties tell them apart: the limit -1 is a limit like any
\* other.
OverAlways(count) == count > loops[2]

\* A deliberately wrong variant of Over, to show the properties tell them apart: the animation ends one loop early.
OverEarly(count) == loops[2] # -1 /\ count >= loops[2]

\* The loop limit is finite and the counter is past it.
Over(count) == loops[2] # -1 /\ count > loops[2]

\* The condition under which _animate moves to the next frame, now being the
\* clock as read in the condition.
Fires(now, ft) == now - ft >= Duration(frame) /\ ~paused /\ ~ended

\* A deliberately wrong variant of NextFrame, to show the properties tell them apart: no return to frame 0 after
\* the last frame.
NextFramePast == frame + 1

\* The frame after self.frame.
NextFrame == IF frame < NFrames - 1 THEN frame + 1 ELSE 0

\* A deliberately wrong variant of PausedAfter, to show the properties tell them apart: the pause() made on
\* ending stays visible.
PausedAfterKeeps(over) == IF over THEN TRUE ELSE paused

\* The paused flag after the limit test: self.pause() and then
\* self.paused = False when the counter is past the limit.
PausedAfter(over) == IF over THEN FALSE ELSE paused

\* The ticks the clock may move between two readings of time.time() made in
\* one call.
DriftInputs == {0, 1}

\* The values a time.time() call can return after one that returned t.
Reading(t, limit) == {u \in {t + d : d \in DriftInputs} : u <= limit}

\* GIFPygame._animate, called by render() and blit_ready(). Every time.time()
\* is a reading of its own: the first reading of the call gives clock, the
\* condition reads t2, the assignment after a move reads t3, and the call
\* returns at the last reading (no later than limit).
advance(limit) ==
  \E t2 \in Reading(clock, limit) : \E t3 \in Reading(t2, limit) :
    LET ft1 == IF frame_time = 0 THEN clock ELSE frame_time
        \* self.frames[self.frame] raises IndexError when there is no such frame
        found == IndexOK(frame, NFrames)
        go == found /\ Fires(t2, ft1)
        count == IF go /\ frame >= NFrames - 1 THEN loops[1] + 1 ELSE loops[1]
        ft2 == IF go THEN t3 ELSE ft1
        \* on a copy loops[1] is a list: `!= -1` holds, and `>` between an int
        \* and a list raises TypeError
        over == found /\ ~copied /\ Over(count)
    IN  /\ loops[1] < MaxCount
        /\ t2 - clock \in (IF frame_time = 0 THEN DriftInputs ELSE {0})
        /\ t3 - t2 \in (IF go THEN DriftInputs ELSE {0})
        /\ clock' = t3
        /\ frame' = IF go THEN NextFrame ELSE frame
        /\ loops' = <<count, loops[2]>>
        /\ frame_time' = ft2
        /\ ended' = IF over THEN TRUE ELSE ended
        /\ paused_time' = IF over /\ ~paused THEN ft2 ELSE paused_time
        /\ paused' = PausedAfter(over)
        /\ last' = "advance"
        /\ turn' = ~turn
        /\ raised' = IF ~found THEN "IndexError"
                      ELSE IF copied THEN "TypeError" ELSE "none"
        /\ result' = <<>>
        /\ budget' = IF go THEN 0 ELSE budget
        /\ resumed' = IF go THEN 0 ELSE resumed
        /\ UNCHANGED <<store, copied, other>>

\* GIFPygame.pause
pause ==
    LET left == Duration(frame) - (clock - frame_time)
        running == /\ ~paused /\ ~ended /\ ~Over(loops[1]) /\ frame_time # 0
                   /\ IndexOK(frame, NFrames)
    IN  /\ paused_time' = PauseTime
        /\ paused' = TRUE
        /\ last' = "pause"
        /\ turn' = ~turn
        /\ raised' = "none"
        /\ result' = <<>>
        /\ budget' = IF paused THEN budget
                     ELSE IF running /\ left > 0 THEN left ELSE 0
        /\ resumed' = IF paused THEN resumed ELSE 0
        /\ UNCHANGED <<clock, store, copied,
                       other, frame, frame_time, ended, loops>>

\* GIFPygame.unpause: time.time()-(time.time()-self.paused_time)
\* with t1 the first reading of the clock and t2 the second, made later.
ResumeTime(t1, t2) == t1 - (t2 - paused_time)

\* The clock is read only when the instance is paused or ended; the call
\* returns at the second reading, t2 (no later than limit).
unpause(limit) ==
    \E t2 \in Reading(clock, limit) :
        /\ t2 - clock \in DriftInputs
        /\ (paused \/ ended) \/ t2 = clock
        /\ clock' = t2
        /\ frame_time' = IF paused \/ ended THEN ResumeTime(clock, t2)
                          ELSE frame_time
        /\ paused' = FALSE
        /\ ended' = FALSE
        /\ last' = "unpause"
        /\ turn' = ~turn
        /\ raised' = "none"
        /\ result' = <<>>
        /\ resumed' = IF paused /\ budget > 0 /\ resumed = 0 THEN t2 ELSE 0
        /\ budget' = IF paused /\ budget > 0 /\ resumed = 0 THEN budget
                     ELSE 0
        /\ UNCHANGED <<store, copied, other, frame, paused_time, loops>>

\* A deliberately wrong variant of ResetFrames, to show the properties tell them apart: a full reset loses the
\* last frame.
ResetFramesShort(full_reset) ==
    IF full_reset THEN SubSeq(orig_frames, 1, Len(orig_frames) - 1)
    ELSE frames

\* GIFPygame.reset
ResetFrames(full_reset) == IF full_reset THEN ListCopy(orig_frames) ELSE frames

\* A deliberately wrong variant of reset, to show the properties tell them apart: the loop counter starts
\* again from 0.
resetClearsLoops(full_reset) ==
    /\ frames' = ResetFrames(full_reset)
    /\ frame' = 0
    /\ frame_time' = 0
    /\ paused_time' = 0
    /\ paused' = FALSE
    /\ loops' = <<0, loops[2]>>
    /\ last' = "reset"
    /\ turn' = ~turn
    /\ raised' = "none"
    /\ result' = <<>>
    /\ budget' = 0
    /\ resumed' = 0
    /\ UNCHANGED <<clock, heap, alpha, loaded, orig_frames, copied,
                   other, ended>>

\* A deliberately wrong variant of reset, to show the properties tell them apart: self.paused_time is not cleared.
resetKeepsPausedTime(full_reset) ==
    /\ frames' = ResetFrames(full_reset)
    /\ frame' = 0
    /\ frame_time' = 0
    /\ paused' = FALSE
    /\ last' = "reset"
    /\ turn' = ~turn
    /\ raised' = "none"
    /\ result' = <<>>
    /\ budget' = 0
    /\ resumed' = 0
    /\ UNCHANGED <<clock, heap, alpha, loaded, orig_frames, copied, other,
                   paused_time, ended, loops>>

reset(full_reset) ==
    /\ frames' = ResetFrames(full_reset)
    /\ frame' = 0
    /\ frame_time' = 0
    /\ paused_time' = 0
    /\ paused' = FALSE
    /\ last' = "reset"
    /\ turn' = ~turn
    /\ raised' = "none"
    /\ result' = <<>>
    /\ budget' = 0
    /\ resumed' = 0
    /\ UNCHANGED <<clock, heap, alpha, loaded, orig_frames, copied,
                   other, ended,
                   loops>>

\* ------------------------------------------------------------ frame store

\* What a caller passes to the batch setters: a Surface of its own making
\* (0), an alpha, a duration, and as frame index the first frame, the last
\* frame of the largest file counted from either end, and one index past
\* either end of the largest file.
SurfInputs == {0}
AlphaInputs == {0}
DurInputs == {1, MaxDur}
IndexInputs == {-(MaxFrames + 1), -1, 0, MaxFrames - 1, MaxFrames}

Entries(kind) ==
    CASE kind = "surfaces" -> SurfInputs \X IndexInputs
      [] kind = "durations" -> DurInputs \X IndexInputs
      [] kind = "datas" -> SurfInputs \X {MaxDur} \X IndexInputs
      [] kind = "alphas" -> AlphaInputs \X IndexInputs

\* Every list of at most n entries.
Batches(kind, n) == UNION {[1..k -> Entries(kind)] : k \in 0..n}

\* The frame index an entry names: surface[1], duration[1], data[2], alpha[1].
IndexOf(kind, e) == IF kind = "datas" THEN e[3] ELSE e[2]

\* `entry in successful_frames`: equality of whole entries.
IsDuplicate(e, successful) == e \in Range(successful)

\* The assignment a setter makes for an entry it accepts.
Write(kind, e, st) ==
    LET c == Cell(IndexOf(kind, e))
    IN  CASE kind = "surfaces" -> [st EXCEPT !.heap[c].surf = e[1]]
          [] kind = "durations" -> [st EXCEPT !.heap[c].dur = e[1]]
          [] kind = "datas" ->
                [st EXCEPT !.heap[c].surf = e[1], !.heap[c].dur = e[2]]
          [] kind = "alphas" -> [st EXCEPT !.alpha[st.heap[c].surf] = e[1]]

\* A deliberately wrong variant of Loop, to show the properties tell them apart: an entry whose index fails ends the
\* loop (break for continue).
RECURSIVE LoopBreaks(_, _, _, _)
LoopBreaks(kind, batch, k, st) ==
    IF k > Len(batch) THEN st
    ELSE LET e == batch[k]
             i == IndexOf(kind, e)
         IN  IF ~IndexOK(i, NFrames)
             THEN [st EXCEPT !.failed = Append(@, <<k - 1, i>>)]
             ELSE IF IsDuplicate(e, st.successful)
             THEN LoopBreaks(kind, batch, k + 1,
                       [st EXCEPT !.duplicated = Append(@, <<k - 1, i>>)])
             ELSE LoopBreaks(kind, batch, k + 1,
                       Write(kind, e,
                             [st EXCEPT !.successful = Append(@, e)]))

\* The for loop of a setter, from entry k on; enumerate() counts from 0.
RECURSIVE Loop(_, _, _, _)
Loop(kind, batch, k, st) ==
    IF k > Len(batch) THEN st
    ELSE LET e == batch[k]
             i == IndexOf(kind, e)
         IN  IF ~IndexOK(i, NFrames)
             THEN Loop(kind, batch, k + 1,
                       [st EXCEPT !.failed = Append(@, <<k - 1, i>>)])
             ELSE IF IsDuplicate(e, st.successful)
             THEN Loop(kind, batch, k + 1,
                       [st EXCEPT !.duplicated = Append(@, <<k - 1, i>>)])
             ELSE IF copied /\ kind # "alphas"
             \* the frames of a copy are tuples: the item assignment raises
             THEN [st EXCEPT !.successful = Append(@, e),
                             !.raised = "TypeError"]
             ELSE Loop(kind, batch, k + 1,
                       Write(kind, e,
                             [st EXCEPT !.successful = Append(@, e)]))

\* A setter's loop run on the whole batch from the current state: the frame
\* cells and alphas it leaves, its three lists, and the exception that ended
\* the loop, if one did.
Run(kind, batch) ==
    Loop(kind, batch, 1,
         [heap |-> heap, alpha |-> alpha, failed |-> <<>>,
          duplicated |-> <<>>, successful |-> <<>>, raised |-> "none"])

\* A deliberately wrong variant of Outcome, to show the properties tell them apart: the raise is missing.
OutcomeSilent(successful) == "none"

\* `if len(successful_frames) == 0: raise IndexError(...)`
Outcome(successful) == IF Len(successful) = 0 THEN "IndexError" ELSE "none"

\* A batch setter call as a whole.
Setter(kind, batch) ==
    LET st == Run(kind, batch)
    IN  /\ heap' = st.heap
        /\ alpha' = st.alpha
        /\ raised' = IF st.raised # "none" THEN st.raised
                      ELSE Outcome(st.successful)
        /\ result' = <<>>
        /\ last' = "set"
        /\ turn' = ~turn
        /\ budget' = 0
        /\ resumed' = 0
        /\ UNCHANGED <<clock, loaded, frames, orig_frames, copied,
                       other, timer>>

\* transform.surfaces, and GIFPygame.set_surface
surfaces(batch) == Setter("surfaces", batch)

\* transform.durations, and GIFPygame.set_duration
durations(batch) == Setter("durations", batch)

\* transform.datas, and GIFPygame.set_data
datas(batch) == Setter("datas", batch)

\* transform.alphas
alphas(batch) == Setter("alphas", batch)

\* ---------------------------------------------------------------- getters

\* The index lists a caller passes to the getters.
IndexLists == UNION {[1..k -> IndexInputs] : k \in 0..MaxPick}

\* selected_frames of the getters: every frame when no index is given, else
\* the frame of each index that list indexing accepts, in the order given.
Selected(indices) ==
    IF Len(indices) = 0 THEN ListCopy(frames)
    ELSE LET found == SelectSeq(indices, LAMBDA i : IndexOK(i, NFrames))
         IN  [k \in 1..Len(found) |-> Cell(found[k])]

\* GIFPygame.get_surfaces
get_surfaces(indices) ==
    LET selected_frames == Selected(indices)
    IN  [k \in 1..Len(selected_frames) |-> heap[selected_frames[k]].surf]

\* GIFPygame.get_durations
get_durations(indices) ==
    LET selected_frames == Selected(indices)
    IN  [k \in 1..Len(selected_frames) |-> heap[selected_frames[k]].dur]

\* A deliberately wrong variant of get_datas, to show the properties tell them apart: the pairs are those decoded at
\* load time, not the current ones.
get_datasAsLoaded(indices) ==
    LET selected_frames == Selected(indices)
    IN  [k \in 1..Len(selected_frames) |->
            <<loaded[selected_frames[k]].surf,
              loaded[selected_frames[k]].dur>>]

\* GIFPygame.get_datas: the frames themselves, each a [surface, duration]
get_datas(indices) ==
    LET selected_frames == Selected(indices)
    IN  [k \in 1..Len(selected_frames) |->
            <<heap[selected_frames[k]].surf, heap[selected_frames[k]].dur>>]

\* Surfaces are numbered so that the number tells the picture: the pictures
\* are 0..MaxFrames, and a transform returns a new Surface object.
Stride == MaxFrames + 1

\* The picture a surface was made from.
Image(surf) == surf % Stride

\* pygame.transform.flip(surf, ...), surf.convert(), ...: the new Surface made
\* from the k-th surface of old_surfs.
Transformed(surf, k) == surf + Stride * k

\* new_surfs of a transform function called with the list indices:
\* (transform of old_surfs[i], frames[i]) for each surface get_surfaces
\* returned, where frames is the list given or, when it is empty, every index.
NewSurfs(indices) ==
    LET old_surfs == get_surfaces(indices)
        chosen == IF Len(indices) = 0 THEN [i \in 1..NFrames |-> i - 1]
                  ELSE indices
    IN  [i \in 1..Len(old_surfs) |->
            <<Transformed(old_surfs[i], i), chosen[i]>>]

\* transform.flip, and scale, scale_by, rotate, ..., convert, convert_alpha,
\* which differ in the pygame call only: get_surfaces, then surfaces() on the
\* new list. A surface is transformed while its number is below TransformCap.
TransformCap == Stride * (MaxPick + 1)

flip(indices) ==
    LET st == Run("surfaces", NewSurfs(indices))
    IN  /\ \A c \in DOMAIN heap : heap[c].surf < TransformCap
        /\ heap' = st.heap
        /\ alpha' = st.alpha
        /\ raised' = IF st.raised # "none" THEN st.raised
                      ELSE Outcome(st.successful)
        /\ result' = <<>>
        /\ last' = "flip"
        /\ turn' = ~turn
        /\ budget' = 0
        /\ resumed' = 0
        /\ UNCHANGED <<clock, loaded, frames, orig_frames, copied,
                       other, timer>>

\* A call that changes nothing and returns a list.
Returns(name, value) ==
    /\ last' = name
    /\ turn' = ~turn
    /\ result' = value
    /\ raised' = "none"
    /\ UNCHANGED <<clock, store, copied, other, timer, budget, resumed>>

\* -------------------------------------------------------- range selection

\* An optional argument: <<>> is None, <<v>> is the value v.
IsNone(x) == Len(x) = 0

\* `not x`: None and 0 are both false.
Falsy(x) == IsNone(x) \/ x[1] = 0

\* The select_frame, first_frame and last_frame a caller passes.
OptInputs == {<<>>} \cup {<<i>> : i \in IndexInputs}

\* A slice bound i on a list of n items: negative counts from the end, and
\* what falls off either end is clipped.
SliceBound(i, n) ==
    IF i < 0 THEN (IF i + n < 0 THEN 0 ELSE i + n)
    ELSE IF i > n THEN n ELSE i

\* l[start:stop], either bound optional
Slice(l, start, stop) ==
    LET lo == IF IsNone(start) THEN 0 ELSE SliceBound(start[1], Len(l))
        hi == IF IsNone(stop) THEN Len(l) ELSE SliceBound(stop[1], Len(l))
    IN  IF hi <= lo THEN <<>> ELSE SubSeq(l, lo + 1, hi)

\* A deliberately wrong variant of _grab_frame, to show the properties tell them apart: the first test reads
\* `if first_frame and last_frame`, so a bound of 0 counts as not given.
_grab_frameTruthy(select_frame, first_frame, last_frame) ==
    IF ~IsNone(select_frame)
    THEN IF IndexOK(select_frame[1], NFrames)
         THEN [raised |-> "none", value |-> <<Cell(select_frame[1])>>]
         ELSE [raised |-> "IndexError", value |-> <<>>]
    ELSE IF ~Falsy(first_frame) /\ ~Falsy(last_frame)
    THEN [raised |-> "none", value |-> Slice(frames, first_frame, last_frame)]
    ELSE IF ~IsNone(first_frame) /\ Falsy(last_frame)
    THEN [raised |-> "none", value |-> Slice(frames, first_frame, <<>>)]
    ELSE IF Falsy(first_frame) /\ ~IsNone(last_frame)
    THEN [raised |-> "none", value |-> Slice(frames, <<>>, last_frame)]
    ELSE [raised |-> "none", value |-> frames]

\* A deliberately wrong variant of _grab_frame, to show the properties tell them apart: with first_frame 0 and
\* last_frame below it, every frame is selected.
_grab_frameQuirk(select_frame, first_frame, last_frame) ==
    IF ~IsNone(select_frame)
    THEN IF IndexOK(select_frame[1], NFrames)
         THEN [raised |-> "none", value |-> <<Cell(select_frame[1])>>]
         ELSE [raised |-> "IndexError", value |-> <<>>]
    ELSE IF /\ ~IsNone(first_frame) /\ ~IsNone(last_frame)
            /\ first_frame[1] = 0 /\ last_frame[1] < 0
    THEN [raised |-> "none", value |-> frames]
    ELSE IF ~IsNone(first_frame) /\ ~IsNone(last_frame)
    THEN [raised |-> "none", value |-> Slice(frames, first_frame, last_frame)]
    ELSE IF ~IsNone(first_frame) /\ Falsy(last_frame)
    THEN [raised |-> "none", value |-> Slice(frames, first_frame, <<>>)]
    ELSE IF Falsy(first_frame) /\ ~IsNone(last_frame)
    THEN [raised |-> "none", value |-> Slice(frames, <<>>, last_frame)]
    ELSE [raised |-> "none", value |-> frames]

\* GIFPygame._grab_frame: the exception it raises, if any, and the list
\* selected_frames it returns. The last `elif` compares last_frame with
\* first_frame when one of them is true; no branch taken leaves
\* selected_frames unbound at the return.
_grab_frame(select_frame, first_frame, last_frame) ==
    IF ~IsNone(select_frame)
    THEN IF IndexOK(select_frame[1], NFrames)
         THEN [raised |-> "none", value |-> <<Cell(select_frame[1])>>]
         ELSE [raised |-> "IndexError", value |-> <<>>]
    ELSE IF ~IsNone(first_frame) /\ ~IsNone(last_frame)
    THEN [raised |-> "none", value |-> Slice(frames, first_frame, last_frame)]
    ELSE IF ~IsNone(first_frame) /\ Falsy(last_frame)
    THEN [raised |-> "none", value |-> Slice(frames, first_frame, <<>>)]
    ELSE IF Falsy(first_frame) /\ ~IsNone(last_frame)
    THEN [raised |-> "none", value |-> Slice(frames, <<>>, last_frame)]
    ELSE IF Falsy(first_frame) /\ Falsy(last_frame)
    THEN [raised |-> "none", value |-> frames]
    ELSE IF IsNone(first_frame) \/ IsNone(last_frame)
    THEN [raised |-> "TypeError", value |-> <<>>]
    ELSE IF 0 < last_frame[1] /\ last_frame[1] < first_frame[1]
    THEN [raised |-> "none", value |-> frames]
    ELSE [raised |-> "UnboundLocalError", value |-> <<>>]

\* A call of _grab_frame on its own.
Grab(select_frame, first_frame, last_frame) ==
    LET selected_frames == _grab_frame(select_frame, first_frame, last_frame)
    IN  /\ last' = "_grab_frame"
        /\ turn' = ~turn
        /\ raised' = selected_frames.raised
        /\ result' = selected_frames.value
        /\ UNCHANGED <<clock, store, copied, other, timer, budget, resumed>>

\* The Surfaces the loop of set_alpha reaches: self.frames[index][0] for the
\* positions index of enumerate(selected_frames).
Reached(selected_frames) ==
    {Surface(index) : index \in 0..(Len(selected_frames) - 1)}

\* GIFPygame.set_alpha
set_alpha(a, select_frame, first_frame, last_frame) ==
    LET selected_frames == _grab_frame(select_frame, first_frame, last_frame)
    IN  /\ last' = "set_alpha"
        /\ turn' = ~turn
        /\ raised' = selected_frames.raised
        /\ result' = <<>>
        /\ alpha' = IF selected_frames.raised # "none" THEN alpha
                     ELSE [s \in DOMAIN alpha |->
                              IF s \in Reached(selected_frames.value)
                              THEN a ELSE alpha[s]]
        /\ UNCHANGED <<clock, heap, loaded, frames, orig_frames, copied, other,
                       timer, budget, resumed>>

\* The for loop of GIFPygame.convert from place k on, over n selected frames:
\* self.frames[index][0] = self.frames[index][0].convert() for index = 0, 1,
\* ..., the places in selected_frames and not the frames selected.
RECURSIVE ConvertLoop(_, _, _)
ConvertLoop(k, n, h) ==
    IF k >= n THEN h
    ELSE ConvertLoop(k + 1, n,
             [h EXCEPT ![Cell(k)].surf = Transformed(@, k + 1)])

\* GIFPygame.convert (the colorkey, set on the new Surface, is not part of the
\* state). On a copy the frames are tuples and the first assignment raises.
convert(select_frame, first_frame, last_frame) ==
    LET selected_frames == _grab_frame(select_frame, first_frame, last_frame)
        n == IF selected_frames.raised # "none" THEN 0
             ELSE Len(selected_frames.value)
    IN  /\ \A c \in DOMAIN heap : heap[c].surf < TransformCap
        /\ last' = "convert"
        /\ turn' = ~turn
        /\ raised' = IF selected_frames.raised # "none"
                      THEN selected_frames.raised
                      ELSE IF copied /\ n > 0 THEN "TypeError" ELSE "none"
        /\ result' = <<>>
        /\ heap' = IF copied THEN heap ELSE ConvertLoop(0, n, heap)
        /\ budget' = 0
        /\ resumed' = 0
        /\ UNCHANGED <<clock, alpha, loaded, frames, orig_frames, copied,
                       other, timer>>

\* ------------------------------------------------------------------- copy

\* GIFPygame.copy: GIFPygame([(frame[0].copy(), frame[1]) ...], self.loops).
\* From here on the instance followed is the copy. Its frames are new tuples
\* of a new Surface (named by the frame's place, alpha as the original's) and
\* the duration; its loops is [0, self.loops], the second item a list.
copy ==
    /\ heap' = [k \in 1..NFrames |-> [surf |-> k, dur |-> Duration(k - 1)]]
    /\ alpha' = [s \in DOMAIN alpha |->
                    IF s \in 1..NFrames THEN alpha[Surface(s - 1)]
                    ELSE alpha[s]]
    /\ loaded' = [k \in 1..NFrames |-> [surf |-> k, dur |-> Duration(k - 1)]]
    /\ orig_frames' = ListCopy([k \in 1..NFrames |-> k])
    /\ frames' = ListCopy([k \in 1..NFrames |-> k])
    /\ frame' = 0
    /\ frame_time' = 0
    /\ paused_time' = 0
    /\ paused' = FALSE
    /\ loops' = <<0, loops[2]>>
    /\ ended' = FALSE
    /\ copied' = TRUE
    /\ last' = "copy"
    /\ turn' = ~turn
    /\ raised' = "none"
    /\ result' = <<>>
    /\ budget' = 0
    /\ resumed' = 0
    /\ UNCHANGED <<clock, other>>

\* ---------------------------------------------------------- specifications

\* The clock alone, on any loaded file: time passing and the calls of the host.
NextClock ==
    \/ Tick(MaxTime)
    \/ advance(MaxTime)
    \/ pause
    \/ unpause(MaxTime)
    \/ \E full_reset \in BOOLEAN : reset(full_reset)

SpecClock == Init /\ [][NextClock]_vars

\* The clock when the host never calls reset().
NextRun ==
    \/ Tick(MaxTime)
    \/ advance(MaxTime)
    \/ pause
    \/ unpause(MaxTime)

SpecRun == Init /\ [][NextRun]_vars

\* The clock and the batch setters of frames in any order: a file whose
\* frames all last one tick, played without limit or with limit 0, and setter
\* calls of one entry. (transform.alphas, which has the same loop and writes
\* the Surfaces' alpha only, is in SpecStore and SpecCopy.)
InitMix == InitWith(1..MaxFrames, {1}, {-1, 0})

Next ==
    \/ Tick(MaxTime - 1)
    \/ advance(MaxTime - 1)
    \/ pause
    \/ unpause(MaxTime - 1)
    \/ \E full_reset \in BOOLEAN : reset(full_reset)
    \/ \E b \in Batches("surfaces", 1) : surfaces(b)
    \/ \E b \in Batches("durations", 1) : durations(b)
    \/ \E b \in Batches("datas", 1) : datas(b)

Spec == InitMix /\ [][Next]_vars

\* The frame store alone: the setters and reset() on a file whose frames have
\* no delay (duration 0, which no setter input repeats), no time passing.
InitStore == InitWith(1..MaxFrames, {0}, {-1})

NextStore ==
    \/ \E b \in Batches("surfaces", MaxBatch) : surfaces(b)
    \/ \E b \in Batches("durations", MaxBatch) : durations(b)
    \/ \E b \in Batches("datas", MaxBatch) : datas(b)
    \/ \E b \in Batches("alphas", MaxBatch) : alphas(b)
    \/ \E full_reset \in BOOLEAN : reset(full_reset)

SpecStore == InitStore /\ [][NextStore]_vars

\* The frame store read and written: the getters between setter calls of one
\* entry and resets.
NextRead ==
    \/ \E indices \in IndexLists :
          Returns("get_surfaces", get_surfaces(indices))
    \/ \E indices \in IndexLists :
          Returns("get_durations", get_durations(indices))
    \/ \E indices \in IndexLists :
          Returns("get_datas", get_datas(indices))
    \/ \E b \in Batches("surfaces", 1) : surfaces(b)
    \/ \E b \in Batches("durations", 1) : durations(b)
    \/ \E b \in Batches("datas", 1) : datas(b)
    \/ \E b \in Batches("alphas", 1) : alphas(b)
    \/ \E full_reset \in BOOLEAN : reset(full_reset)

SpecRead == InitStore /\ [][NextRead]_vars

\* Range selection: _grab_frame and set_alpha on a store whose images the
\* surface setter replaces.
NextRange ==
    \/ \E select_frame \in OptInputs : \E first_frame \in OptInputs :
          \E last_frame \in OptInputs :
             Grab(select_frame, first_frame, last_frame)
    \/ \E a \in AlphaInputs : \E select_frame \in OptInputs :
          \E first_frame \in OptInputs : \E last_frame \in OptInputs :
             set_alpha(a, select_frame, first_frame, last_frame)
    \/ \E b \in Batches("surfaces", 1) : surfaces(b)
    \/ \E full_reset \in BOOLEAN : reset(full_reset)

SpecRange == InitStore /\ [][NextRange]_vars

\* An instance and its copies: every operation of Spec, copy() at any
\* moment, and convert() on a copy.
NextCopy ==
    \/ Tick(MaxTime - 1)
    \/ advance(MaxTime - 1)
    \/ pause
    \/ unpause(MaxTime - 1)
    \/ \E full_reset \in BOOLEAN : reset(full_reset)
    \/ copy
    \/ copied /\ \E select_frame \in OptInputs, first_frame \in OptInputs :
                    convert(select_frame, first_frame, <<>>)
    \/ \E b \in Batches("surfaces", 1) : surfaces(b)
    \/ \E b \in Batches("durations", 1) : durations(b)
    \/ \E b \in Batches("datas", 1) : datas(b)
    \/ \E b \in Batches("alphas", 1) : alphas(b)

SpecCopy == InitMix /\ [][NextCopy]_vars

\* Two instances: the second one made by a load() of its own ("load") or by
\* GIFPygame(frames, loops) from the very list the first was made from
\* ("list"); the calls are made on the first.
InitPair ==
    \E n \in 1..MaxFrames : \E made \in {"load", "list"} :
      \E lim \in {-1, 0} :
        /\ clock = 1
        /\ heap = [k \in 1..(IF made = "list" THEN n ELSE 2 * n) |->
                      [surf |-> k, dur |-> 1]]
        /\ alpha = [s \in 0..(2 * n) |-> -1]
        /\ loaded = [k \in 1..n |-> [surf |-> k, dur |-> 1]]
        /\ orig_frames = ListCopy([k \in 1..n |-> k])
        /\ frames = ListCopy([k \in 1..n |-> k])
        /\ frame = 0
        /\ frame_time = 0
        /\ paused_time = 0
        /\ paused = FALSE
        /\ loops = <<0, lim>>
        /\ ended = FALSE
        /\ last = "load"
        /\ turn = FALSE
        /\ raised = "none"
        /\ result = <<>>
        /\ copied = FALSE
        /\ other = [made |-> made,
                    frames |-> IF made = "list"
                               THEN ListCopy([k \in 1..n |-> k])
                               ELSE [k \in 1..n |-> n + k],
                    timer |-> NewClock(lim)]
        /\ budget = 0
        /\ resumed = 0

NextPair ==
    \/ Tick(MaxTime - 1)
    \/ advance(MaxTime - 1)
    \/ pause
    \/ unpause(MaxTime - 1)
    \/ \E full_reset \in BOOLEAN : reset(full_reset)
    \/ \E b \in Batches("surfaces", 1) : surfaces(b)
    \/ \E b \in Batches("durations", 1) : durations(b)

SpecPair == InitPair /\ [][NextPair]_vars

\* The host's render loop runs for ever: every tick it calls render() or
\* blit_ready(); during the first MaxTime ticks it may pause, unpause and
\* reset in between. The LiveTime - MaxTime ticks after that are enough to
\* show every frame for MaxCount loops, each frame for its duration and the
\* tick the clock may move inside the call that leaves it. Time never stops (strong fairness of
\* Lap: the host cannot hold the clock back by calling between two ticks for
\* ever) and the host keeps rendering.
LiveTime == MaxTime + MaxFrames * (MaxDur + 1) * MaxCount + 2

InitLive == InitWith(1..MaxFrames, {1, MaxDur}, (-1)..MaxLoops)

NextLive ==
    \/ Lap(LiveTime)
    \/ advance(LiveTime)
    \/ clock <= MaxTime /\ pause
    \/ clock <= MaxTime /\ unpause(LiveTime)
    \/ clock <= MaxTime /\ \E full_reset \in BOOLEAN : reset(full_reset)

SpecLive ==
    /\ InitLive /\ [][NextLive]_vars
    /\ SF_vars(Lap(LiveTime)) /\ WF_vars(advance(LiveTime))

\* Transforms on chosen frames, between surface setter calls and resets.
NextTransform ==
    \/ \E indices \in IndexLists : flip(indices)
    \/ \E select_frame \in OptInputs, first_frame \in OptInputs,
          last_frame \in OptInputs :
            convert(select_frame, first_frame, last_frame)
    \/ \E b \in Batches("surfaces", 1) : surfaces(b)
    \/ \E full_reset \in BOOLEAN : reset(full_reset)

SpecTransform == InitStore /\ [][NextTransform]_vars

\* Playback only: the host calls render()/blit_ready() as time passes.
InitPlay == InitWith(1..PlayFrames, 0..MaxDur, (-1)..PlayLoops)

NextPlay ==
    \/ Tick(PlayTime)
    \/ advance(PlayTime)

SpecPlay == InitPlay /\ [][NextPlay]_vars

\* ------------------------------------------------------------------ claims

\* The step is a call of `op`.
Called(op) == last' = op /\ turn' # turn

\* Every frame has a positive duration.
PositiveDurations == \A i \in 0..(NFrames - 1) : Duration(i) > 0

\* C1: pause/resume preserves the time the current frame has left. After a
\* pause() that found r > 0 left and the unpause() at time t that followed,
\* an advance() before t + r moves nothing, and the advance() at t + r moves
\* to the next frame.
C1_PauseKeepsBudget ==
    [][(Called("advance") /\ resumed > 0) =>
          IF clock < resumed + budget
          THEN frame' = frame /\ loops' = loops
          ELSE frame' = NextFrame]_vars

\* C2: the first advance() after load, at time t0, leaves frame 0 current and
\* sets the baseline; when duration(0) = d > 0 every later advance() before
\* t0 + d leaves frame 0 current, and the first one at or after t0 + d moves
\* to frame 1, or back to frame 0 when there is one frame. (Until that move
\* frame_time is t0: frame 0 is current and no loop is complete.)
C2_Threshold ==
    [][(Called("advance") /\ frame = 0 /\ loops[1] = 0 /\ Duration(0) > 0) =>
          /\ frame_time = 0 => frame' = 0 /\ frame_time' = clock
          /\ (frame_time # 0 /\ clock < frame_time + Duration(0))
                => frame' = 0 /\ frame_time' = frame_time
          /\ (frame_time # 0 /\ clock >= frame_time + Duration(0))
                => frame' = (IF NFrames = 1 THEN 0 ELSE 1)]_vars

\* Frame moves made so far, when only advance() is called.
Moves == loops[1] * NFrames + frame

C3_Ended == ended <=> loops[1] = loops[2] + 1

\* C3: with loop limit L >= 0 and only advance() called, the clock is Ended
\* exactly from the call in which the loop count becomes L + 1, which is
\* after N * (L + 1) frame moves, one move at most per call; once Ended no
\* advance() changes the current frame or the loop count.
C3_LoopsToEnd ==
    [][loops[2] >= 0 =>
          /\ C3_Ended /\ C3_Ended'
          /\ loops[1] <= loops[2] + 1
          /\ Moves' \in {Moves, Moves + 1}
          /\ ended => (Moves = NFrames * (loops[2] + 1)
                        /\ frame' = frame /\ loops' = loops)]_vars

\* Three frames of one tick each and limit 2: Ended at the tenth tick.
C3_Witness ==
    /\ NFrames = PlayFrames
    /\ \A k \in 1..NFrames : heap[k].dur = 1
    /\ loops = <<PlayLoops + 1, PlayLoops>>
    /\ ended
    /\ clock = PlayFrames * (PlayLoops + 1) + 1

\* C4: with loop limit L the animation plays L loops and stops: once L loops
\* are complete the clock is Ended (stated for L >= 1 and frames of positive
\* duration, after an advance()).
C4_StopsAfterLimit ==
    (/\ last = "advance"
     /\ PositiveDurations
     /\ loops[2] >= 1
     /\ loops[1] >= loops[2]) => ended

\* The clock has been Ended: the loop count passes the limit only in an
\* advance(), which sets ended in the same call, and it never decreases.
WasEnded == Over(loops[1])

\* C5: once the clock is Ended, no pause(), unpause() or advance() changes
\* the current frame or the loop count (stated for frames of positive
\* duration).
C5_EndedIsSticky ==
    [][(WasEnded /\ PositiveDurations /\ turn' # turn) =>
          (frame' = frame /\ loops' = loops)]_vars

\* C6: reset() on an Ended clock clears ended and gives the initial Running
\* state with loop count 0.
C6_ResetClearsEnded ==
    [][(ended /\ \E full_reset \in BOOLEAN : reset(full_reset)) =>
          /\ ~ended'
          /\ ~paused'
          /\ frame' = 0
          /\ frame_time' = 0
          /\ loops'[1] = 0]_vars

\* C7: reset() from any state sets frame = 0, frame_time = 0 (unset),
\* paused_time = 0 (cleared) and paused = False; without full_reset every
\* frame keeps its image and its duration.
C7_Reset ==
    [][/\ (\E full_reset \in BOOLEAN : reset(full_reset)) =>
             (frame' = 0 /\ frame_time' = 0 /\ paused_time' = 0 /\ ~paused')
       /\ reset(FALSE) =>
             (/\ NFrames' = NFrames
              /\ \A i \in 0..(NFrames - 1) :
                    /\ Surface(i)' = Surface(i)
                    /\ Duration(i)' = Duration(i))]_vars

\* reset() was called after a loop was complete, on a store in which a setter
\* had changed a duration.
C7_Witness ==
    /\ last = "reset"
    /\ frame = 0 /\ frame_time = 0 /\ paused_time = 0 /\ ~paused
    /\ loops[1] > 0
    /\ \E i \in 0..(NFrames - 1) : Duration(i) # loaded[i + 1].dur

\* The four batch setters.
Kinds == {"surfaces", "durations", "datas", "alphas"}

\* What frame i holds of the kind a setter writes, and what an entry carries.
Stored(kind, i) ==
    CASE kind = "surfaces" -> Surface(i)
      [] kind = "durations" -> Duration(i)
      [] kind = "datas" -> <<Surface(i), Duration(i)>>
      [] kind = "alphas" -> alpha[Surface(i)]

ValueOf(kind, e) == IF kind = "datas" THEN <<e[1], e[2]>> ELSE e[1]

\* C8: reset(full_reset=True) gives every frame the image and the duration
\* it had when the instance was created.
C8_FullResetRestores ==
    [][reset(TRUE) =>
          /\ NFrames' = Len(loaded)
          /\ \A i \in 0..(Len(loaded) - 1) :
                /\ Surface(i)' = loaded[i + 1].surf
                /\ Duration(i)' = loaded[i + 1].dur]_vars

\* The position of the first entry of the batch with the index of entry k.
FirstNaming(kind, b, k) ==
    CHOOSE j \in 1..k :
        /\ IndexOf(kind, b[j]) = IndexOf(kind, b[k])
        /\ \A m \in 1..(j - 1) : IndexOf(kind, b[m]) # IndexOf(kind, b[k])

\* No entry of the batch reaches the frame of entry k under another index.
OneName(kind, b, k) ==
    \A m \in 1..Len(b) :
        (/\ IndexOK(IndexOf(kind, b[m]), NFrames)
         /\ Cell(IndexOf(kind, b[m])) = Cell(IndexOf(kind, b[k])))
            => IndexOf(kind, b[m]) = IndexOf(kind, b[k])

\* C9: in one batch setter call the first entry naming an index is the one
\* applied; every later entry with that index is recorded as duplicated and
\* changes nothing, and the call succeeds.
C9_FirstWins ==
    [][\A kind \in Kinds : \A b \in Batches(kind, MaxBatch) :
          Setter(kind, b) =>
             \A k \in 1..Len(b) :
                LET i == IndexOf(kind, b[k])
                    first == FirstNaming(kind, b, k)
                IN  IndexOK(i, NFrames) =>
                       /\ raised' = "none"
                       /\ k # first =>
                             <<k - 1, i>> \in Range(Run(kind, b).duplicated)
                       /\ OneName(kind, b, k) =>
                             Stored(kind, i)' = ValueOf(kind, b[first])]_vars

\* No entry of the batch names a frame: the batch is empty, or every index
\* is one that list indexing rejects.
NothingApplies(kind, b) ==
    \A k \in 1..Len(b) :
        IndexOf(kind, b[k]) < -NFrames \/ IndexOf(kind, b[k]) >= NFrames

\* C10: a batch setter call in which no entry is applied raises IndexError
\* and leaves every frame's image, duration and alpha as they were.
C10_AllInvalidRaises ==
    \A kind \in Kinds : \A b \in Batches(kind, MaxBatch) :
        NothingApplies(kind, b) =>
            LET st == Run(kind, b)
            IN  /\ Outcome(st.successful) = "IndexError"
                /\ st.heap = heap
                /\ st.alpha = alpha

\* A setter call raised on a full-size store that an earlier call had changed.
C10_Witness ==
    /\ last = "set"
    /\ raised = "IndexError"
    /\ NFrames = MaxFrames
    /\ \E i \in 0..(NFrames - 1) : Duration(i) # loaded[i + 1].dur

\* An index of the store as the specification counts them: 0 .. N-1.
InStore(i) == 0 <= i /\ i < NFrames

\* Entry k is the only entry of the batch that reaches its frame.
Alone(kind, b, k) ==
    \A m \in 1..Len(b) :
        (m # k /\ IndexOK(IndexOf(kind, b[m]), NFrames))
            => Cell(IndexOf(kind, b[m])) # Cell(IndexOf(kind, b[k]))

\* The alpha of the image frame j shows.
FrameAlpha(j) == alpha[Surface(j)]

\* What frame i holds, of the kind a setter writes, in the store st a setter
\* leaves.
StoredIn(st, kind, i) ==
    LET c == st.heap[Cell(i)]
    IN  CASE kind = "surfaces" -> c.surf
          [] kind = "durations" -> c.dur
          [] kind = "datas" -> <<c.surf, c.dur>>
          [] kind = "alphas" -> st.alpha[c.surf]

\* C11: a batch setter call with at least one entry whose index is in
\* [0, N) does not raise, whatever the other entries are; an entry with an
\* index in [0, N) whose frame no other entry of the batch names is applied;
\* and a frame that no applied entry names keeps its image, its duration
\* and (unless it shows the very Surface object of a named frame) its alpha.
C11_BestEffort ==
    \A kind \in Kinds : \A b \in Batches(kind, MaxBatch) :
        (\E k \in 1..Len(b) : InStore(IndexOf(kind, b[k]))) =>
            LET st == Run(kind, b)
                named == {Cell(IndexOf(kind, e)) : e \in Range(st.successful)}
            IN  /\ st.raised = "none"
                /\ Outcome(st.successful) = "none"
                /\ \A k \in 1..Len(b) :
                      (InStore(IndexOf(kind, b[k])) /\ Alone(kind, b, k)) =>
                         StoredIn(st, kind, IndexOf(kind, b[k]))
                            = ValueOf(kind, b[k])
                /\ \A j \in 0..(NFrames - 1) :
                      Cell(j) \notin named =>
                         /\ st.heap[Cell(j)] = heap[Cell(j)]
                         /\ (\A c \in named : heap[c].surf # Surface(j))
                               => st.alpha[Surface(j)] = alpha[Surface(j)]

\* A setter call returned on a full-size store with the first frame's
\* duration changed and the last frame's duration as loaded.
C11_Witness ==
    /\ last = "set"
    /\ raised = "none"
    /\ NFrames = MaxFrames
    /\ Duration(0) = MaxDur
    /\ Duration(NFrames - 1) = loaded[NFrames].dur
    /\ loaded[1].dur # MaxDur

\* C12: in a batch setter call every entry whose index is outside [0, N),
\* negative or >= N, is recorded as failed, and a call in which every entry
\* is such an entry changes no frame.
C12_OutsideFails ==
    [][\A kind \in Kinds : \A b \in Batches(kind, MaxBatch) :
          Setter(kind, b) =>
             /\ \A k \in 1..Len(b) :
                   ~InStore(IndexOf(kind, b[k])) =>
                      <<k - 1, IndexOf(kind, b[k])>>
                         \in Range(Run(kind, b).failed)
             /\ (\A k \in 1..Len(b) : ~InStore(IndexOf(kind, b[k]))) =>
                   (heap' = heap /\ alpha' = alpha)]_vars

\* The entries a getter is to return for an index list: all of them when the
\* list is empty, else that of each index in [0, N), in the order given.
Expected(indices, all) ==
    IF Len(indices) = 0 THEN all
    ELSE LET inside == SelectSeq(indices, InStore)
         IN  [k \in 1..Len(inside) |-> all[inside[k] + 1]]

\* C13: get_surfaces, get_durations and get_datas return every entry in
\* store order when called without indices, and called with indices return
\* the entries of the indices in [0, N), in the order given, leaving out
\* every index that is negative or >= N, without raising.
C13_GettersSelect ==
    [][\A indices \in IndexLists :
          /\ Returns("get_surfaces", get_surfaces(indices)) =>
                result' = Expected(indices,
                                   [k \in 1..NFrames |-> Surface(k - 1)])
          /\ Returns("get_durations", get_durations(indices)) =>
                result' = Expected(indices,
                                   [k \in 1..NFrames |-> Duration(k - 1)])
          /\ Returns("get_datas", get_datas(indices)) =>
                result' = Expected(indices,
                             [k \in 1..NFrames |->
                                 <<Surface(k - 1), Duration(k - 1)>>])]_vars

\* C14: in every state the setters and resets reach, for every i in [0, N)
\* the entry get_datas([i])[0] holds get_surfaces([i])[0] and
\* get_durations([i])[0].
C14_GettersAgree ==
    \A i \in 0..(NFrames - 1) :
        get_datas(<<i>>)[1]
            = <<get_surfaces(<<i>>)[1], get_durations(<<i>>)[1]>>

\* get_datas was called for the last frame of a full-size store after a setter
\* had given that frame the caller's image and another duration.
C14_Witness ==
    /\ last = "get_datas"
    /\ NFrames = MaxFrames
    /\ result = <<<<0, MaxDur>>>>
    /\ result = get_datas(<<NFrames - 1>>)
    /\ loaded[NFrames] # [surf |-> 0, dur |-> MaxDur]

\* Position p of the store lies in [first:last]: at or after first and
\* before last, a negative bound counting from the end.
InSlice(p, first_frame, last_frame) ==
    /\ IsNone(first_frame) \/
          (IF first_frame[1] >= 0 THEN p >= first_frame[1]
                                   ELSE p >= NFrames + first_frame[1])
    /\ IsNone(last_frame) \/
          (IF last_frame[1] >= 0 THEN p < last_frame[1]
                                  ELSE p < NFrames + last_frame[1])

\* The frames at the positions of [first:last], in store order.
Picked(first_frame, last_frame) ==
    LET at == SelectSeq([k \in 1..NFrames |-> k - 1],
                        LAMBDA p : InSlice(p, first_frame, last_frame))
    IN  [k \in 1..Len(at) |-> Cell(at[k])]

\* C15: _grab_frame with select_frame given (an index of the store) returns
\* that one frame whatever first_frame and last_frame are; without it, it
\* returns frames[first:last], frames[first:] (first = 0 included),
\* frames[:last] (last = 0 included) or every frame, as first_frame and
\* last_frame are given or not, and raises for no such combination.
C15_Range ==
    [][\A select_frame \in OptInputs : \A first_frame \in OptInputs :
          \A last_frame \in OptInputs :
             Grab(select_frame, first_frame, last_frame) =>
                IF ~IsNone(select_frame)
                THEN IndexOK(select_frame[1], NFrames) =>
                        (raised' = "none"
                            /\ result' = <<Cell(select_frame[1])>>)
                ELSE /\ raised' = "none"
                     /\ result' = Picked(first_frame, last_frame)
                     /\ (IsNone(first_frame) /\ IsNone(last_frame))
                           => result' = frames]_vars

\* _grab_frame returned every frame but the first of a full-size store.
C15_Witness ==
    /\ last = "_grab_frame"
    /\ raised = "none"
    /\ NFrames = MaxFrames
    /\ result = SubSeq(frames, 2, NFrames)

\* C16 as the specification states it: without select_frame, with first_frame
\* 0 and last_frame below it, _grab_frame returns every frame.
C16_QuirkReturnsAll ==
    [][\A last_frame \in OptInputs :
          (/\ ~IsNone(last_frame) /\ last_frame[1] < 0
           /\ Grab(<<>>, <<0>>, last_frame)) =>
              (raised' = "none" /\ result' = frames)]_vars

\* C16 as the code has it: without select_frame, with first_frame 0 and
\* last_frame below it, _grab_frame returns frames[0:last_frame], the first
\* N + last_frame frames (none when last_frame <= -N), never every frame.
C16_ZeroFirstSlices ==
    [][\A last_frame \in OptInputs :
          (/\ ~IsNone(last_frame) /\ last_frame[1] < 0
           /\ Grab(<<>>, <<0>>, last_frame)) =>
              /\ raised' = "none"
              /\ result' = IF NFrames + last_frame[1] <= 0 THEN <<>>
                            ELSE SubSeq(frames, 1, NFrames + last_frame[1])
              /\ result' # frames]_vars

\* _grab_frame returned every frame but the last of a full-size store.
C16_Witness ==
    /\ last = "_grab_frame"
    /\ raised = "none"
    /\ NFrames = MaxFrames
    /\ result = SubSeq(frames, 1, NFrames - 1)

\* C17: set_alpha gives the alpha to exactly the frames _grab_frame selects
\* for its arguments: each selected frame has it afterwards, and a frame not
\* selected (that shows no Surface object of a selected frame) keeps its own.
C17_AlphaOnSelected ==
    [][\A a \in AlphaInputs : \A select_frame \in OptInputs :
          \A first_frame \in OptInputs : \A last_frame \in OptInputs :
             LET selected_frames ==
                     _grab_frame(select_frame, first_frame, last_frame)
                 chosen == Range(selected_frames.value)
             IN  (/\ set_alpha(a, select_frame, first_frame, last_frame)
                  /\ selected_frames.raised = "none") =>
                    \A j \in 0..(NFrames - 1) :
                       /\ Cell(j) \in chosen => FrameAlpha(j)' = a
                       /\ (\A c \in chosen : heap[c].surf # Surface(j))
                             => FrameAlpha(j)' = FrameAlpha(j)]_vars

\* C18: copy() gives an instance with as many frames, the same durations
\* and the same loop limit, its clock as after construction; and on a copy
\* neither advance() nor a batch setter call with an entry that names a frame
\* raises.
C18_CopyWorks ==
    [][/\ copy =>
             /\ NFrames' = NFrames
             /\ \A i \in 0..(NFrames - 1) : Duration(i)' = Duration(i)
             /\ loops' = <<0, loops[2]>>
             /\ frame' = 0 /\ frame_time' = 0 /\ paused_time' = 0
             /\ ~paused' /\ ~ended'
       /\ (copied /\ Called("advance")) => raised' = "none"
       /\ \A kind \in Kinds : \A b \in Batches(kind, 1) :
             (copied /\ Setter(kind, b) /\ ~NothingApplies(kind, b))
                => raised' = "none"]_vars

\* The calls of the clock.
ClockCalls == {"advance", "pause", "unpause", "reset"}

\* C19: on an instance with at least one frame, no call of advance, pause,
\* unpause or reset raises, in whatever state and order it is made (setter
\* calls in between included).
C19_ClockNeverRaises ==
    [][(turn' # turn /\ last' \in ClockCalls) => raised' = "none"]_vars

\* advance() returned on a clock that had ended, was resumed and ended again.
C19_Witness ==
    /\ last = "advance"
    /\ raised = "none"
    /\ ended
    /\ loops = <<2, 0>>

\* C20: whatever advance, pause, unpause, plain and full reset and batch
\* setter calls were made, the current frame is an index of the store, the
\* loop count is not negative, and the store has the frames it was loaded
\* with.
C20_IndexInvariant ==
    /\ 0 <= frame /\ frame < NFrames
    /\ loops[1] >= 0
    /\ NFrames = Len(loaded)

\* The last frame of a full-size store is current, after a pause, when a
\* setter call changes a duration.
C20_Witness ==
    /\ NFrames = MaxFrames
    /\ frame = NFrames - 1
    /\ paused
    /\ last = "set"
    /\ raised = "none"
    /\ \E i \in 0..(NFrames - 1) : Duration(i) # loaded[i + 1].dur

\* The image and the duration of each frame of the second instance.
OtherFrames == [k \in 1..Len(other.frames) |-> heap[other.frames[k]]]

\* C21: no call on one instance (advance, pause, unpause, reset, a batch
\* setter) changes the frames, the durations or the clock fields of another
\* instance, whether the two were loaded separately or made from one frames
\* list.
C21_Independent ==
    [][turn' # turn =>
          (OtherFrames' = OtherFrames /\ other'.timer = other.timer)]_vars

\* C22: with loop limit -1 the animation is never ended, whatever the host
\* calls, and while the host renders as time passes the frames keep turning:
\* the loop counter reaches every value (here up to MaxCount) unless the
\* clock is left paused.
C22_Unlimited ==
    /\ [](loops[2] = -1 => ~ended)
    /\ (loops[2] = -1) => (<>(loops[1] = MaxCount) \/ <>[]paused)

C22_Witness ==
    /\ loops[2] = -1
    /\ loops[1] = MaxCount
    /\ last = "advance"
    /\ ~ended

\* C23: an advance() that fires (not paused, not ended, baseline set, the
\* current frame shown for at least its duration) moves to the next frame
\* modulo N and no further, however long the frame was shown, counts a loop
\* exactly when it leaves the last frame, and sets frame_started_at to now,
\* the time at which the frame was found to have been shown long enough.
C23_SingleStep ==
    [][(/\ Called("advance")
        /\ ~paused /\ ~ended
        /\ frame_time # 0
        /\ clock - frame_time >= Duration(frame)) =>
          /\ frame' = (frame + 1) % NFrames
          /\ loops'[1] = loops[1] + (IF frame = NFrames - 1 THEN 1 ELSE 0)
          /\ frame_time' = clock]_vars

\* C24: advance() on a paused or ended clock changes none of current_index,
\* frame_started_at, paused, paused_at, loop_count and ended, the first
\* advance() after load or reset included.
C24_NoOpWhenStopped ==
    [][(Called("advance") /\ (paused \/ ended)) => timer' = timer]_vars

\* C25: the first advance() after construction or after reset() sets
\* frame_started_at to now and changes neither current_index nor loop_count,
\* whatever the durations are (0 included).
C25_FirstTick ==
    [][(Called("advance") /\ frame_time = 0) =>
          /\ frame_time' = clock
          /\ frame' = frame
          /\ loops' = loops]_vars

\* C26: pause() on a clock that is not paused records paused_at =
\* frame_started_at and sets paused; pause() on a paused clock changes
\* nothing, paused_at included; pause() never changes current_index,
\* frame_started_at, loop_count or ended.
C26_PauseIdempotent ==
    [][Called("pause") =>
          /\ ~paused => (paused_time' = frame_time /\ paused')
          /\ paused => timer' = timer
          /\ UNCHANGED <<frame, frame_time, loops, ended>>]_vars

\* A second pause(), on a clock whose baseline was set while it was paused:
\* paused_at is not the frame's start time.
C26_Witness ==
    /\ last = "pause"
    /\ paused
    /\ paused_time # frame_time

\* C27 as stated: in every reachable state where ended is true, paused is
\* true.
C27_EndedPaused == ended => paused

\* C27: every advance() that leaves the clock ended leaves paused false, and
\* when the clock was not paused before it, paused_at is the frame's start
\* time.
C27_EndedNotPaused ==
    [][(Called("advance") /\ ended') =>
          /\ ~paused'
          /\ ~paused => paused_time' = frame_time']_vars

\* The clock has just ended, at the end of a frame that was shown for a while.
C27_Witness ==
    /\ last = "advance"
    /\ ended
    /\ ~paused
    /\ PositiveDurations
    /\ paused_time = frame_time
    /\ frame_time = clock

\* C28: a transform function called with a list F of indices leaves on each
\* frame i of F, 0 <= i < N, the transform of that frame's own previous
\* image, on every frame when F is empty, and leaves every other frame's
\* image as it was; indices of F outside [0, N) are skipped, wherever they
\* stand in F.
C28_TransformsChosen ==
    [][\A indices \in IndexLists :
          (flip(indices) /\ last' = "flip") =>
             \A i \in 0..(NFrames - 1) :
                IF Len(indices) = 0 \/ i \in Range(indices)
                THEN /\ heap'[Cell(i)].surf # Surface(i)
                     /\ Image(heap'[Cell(i)].surf) = Image(Surface(i))
                ELSE heap'[Cell(i)].surf = Surface(i)]_vars

\* C29: loop_count never decreases; it changes only in an advance() that
\* goes from the last frame to frame 0, and then by exactly 1; pause, unpause,
\* reset and the batch setters change neither loop_count nor loop_limit, and
\* nothing changes loop_limit.
C29_LoopCountMonotone ==
    [][/\ loops'[1] >= loops[1]
       /\ loops'[2] = loops[2]
       /\ loops'[1] # loops[1] =>
             /\ Called("advance")
             /\ loops'[1] = loops[1] + 1
             /\ frame = NFrames - 1
             /\ frame' = 0]_vars

\* A reset() after a loop was counted: the counter is kept.
C29_Witness ==
    /\ last = "reset"
    /\ loops[1] = 1
    /\ frame = 0

\* C30: with a loop limit L >= 0 and positive durations, while the host
\* renders as time passes the clock eventually becomes ended, unless it is
\* left paused; and an advance() on an ended clock leaves it ended.
C30_Terminates ==
    /\ (loops[2] >= 0 /\ PositiveDurations) => (<>ended \/ <>[]paused)
    /\ [][(ended /\ Called("advance")) => ended']_vars

\* The clock ended after the host stopped interfering, past the largest
\* limit, and an advance() was made on the ended clock.
C30_Witness ==
    /\ last = "advance"
    /\ ended
    /\ PositiveDurations
    /\ loops = <<MaxLoops + 1, MaxLoops>>
    /\ clock > MaxTime
    /\ frame_time < clock

====
